---- MODULE Spec2Model ----
(***************************************************************************)
(* Gap Safe screening rules: the regularization-path driver logreg_path    *)
(* (save_logreg.py), the epsilon-norm root finder epsilon_norm and the     *)
(* penalty grid builder build_lambdas (sgl_tools.py).                      *)
(*                                                                         *)
(* Three specifications share the module:                                  *)
(*   Spec     one call of logreg_path, one action per stretch of code      *)
(*            between two calls of the external kernel cd_logreg;          *)
(*   SpecEps  one call of epsilon_norm, one action per branch / loop turn; *)
(*   SpecLam  one call of build_lambdas.                                   *)
(* Python indices are 0-based, TLA+ sequences 1-based: row t of the code   *)
(* is element t + 1 of the sequence.                                       *)
(***************************************************************************)
EXTENDS Integers, Sequences, FiniteSets, TLC

VARIABLES
    \* ---- logreg_path ----
    pc,                     \* position in logreg_path
    arg,                    \* the lambdas argument as the caller passed it
    data,                   \* the dataset X, y
    eps,                    \* prescribed accuracy (in units of the gap)
    gap_active_warm_start,  \* flag
    strong_active_warm_start, \* flag
    lambdas,                \* the grid after lines 90-91 (an ndarray)
    n_lambdas,
    tol,                    \* a rational <<num, den>>
    run_active_warm_start,
    betas, gaps, n_iters, n_active_features,
    disabled_features,
    beta_init,              \* the coefficient vector, refined in place
    XTR,
    dual_scale,
    t,
    calls,                  \* the kernel calls made so far, in order
    warnings,               \* the indices t for which a warning was printed
    \* ---- epsilon_norm ----
    epc, x, alpha, R, zx, n_inf, k, S, S2, a_k, j0, ret,
    \* ---- build_lambdas ----
    lpc, lam_in, lam_out

pathVars == <<pc, arg, data, eps, gap_active_warm_start, strong_active_warm_start,
              lambdas, n_lambdas, tol, run_active_warm_start, betas, gaps, n_iters,
              n_active_features, disabled_features, beta_init, XTR, dual_scale, t,
              calls, warnings>>
epsVars == <<epc, x, alpha, R, zx, n_inf, k, S, S2, a_k, j0, ret>>
lamVars == <<lpc, lam_in, lam_out>>
vars == <<pathVars, epsVars, lamVars>>

-----------------------------------------------------------------------------
(* Bounds of the model *)

\* longest penalty grid drawn
MaxLambdas == 2
\* penalties are drawn from 1..MaxLambda
MaxLambda == 2

(* Program constants: the default of the max_iter parameter *)
max_iter == 3000

-----------------------------------------------------------------------------
(* Small helpers *)

Abs(v) == IF v < 0 THEN -v ELSE v
Max(a, b) == IF a >= b THEN a ELSE b
Min(a, b) == IF a <= b THEN a ELSE b

RECURSIVE SumSeq(_)
SumSeq(s) == IF s = <<>> THEN 0 ELSE Head(s) + SumSeq(Tail(s))

\* all sequences over S of length lo..hi
SeqsOf(Dom, lo, hi) == UNION {[1..n -> Dom] : n \in lo..hi}

Zeros(n) == [i \in 1..n |-> 0]

-----------------------------------------------------------------------------
(* numpy arrays: a shape and the flat data.  A 0-d array is a scalar.       *)

NdArray(shape, flat) == [shape |-> shape, flat |-> flat]
ScalarOf(v) == NdArray(<<>>, <<v>>)

\* len(a): the first dimension
NpLen(a) == a.shape[1]

\* a[i] (0-based i): a scalar of a 1-d array, a row of a 2-d array
NpItem(a, i) ==
    IF Len(a.shape) = 1
    THEN ScalarOf(a.flat[i + 1])
    ELSE NdArray(Tail(a.shape),
                 [c \in 1..a.shape[2] |-> a.flat[i * a.shape[2] + c]])

\* The value of the lambdas argument: a Python float, an ndarray or a list.
ArgValue(kind, vals) == [kind |-> kind, vals |-> vals]

\* lines 90-91: anything that is not an ndarray is wrapped in a list and
\* converted, a list of k floats included: np.array([[l1, .., lk]]) is 1 x k.
NormalizeLambdas(a) ==
    CASE a.kind = "ndarray" -> NdArray(<<Len(a.vals)>>, a.vals)
      [] a.kind = "scalar"  -> NdArray(<<1>>, a.vals)
      [] a.kind = "list"    -> NdArray(<<1, Len(a.vals)>>, a.vals)

-----------------------------------------------------------------------------
(* Datasets.  X is a tuple of rows with even entries, so that               *)
(* XTR = X^T (y - 0.5) is an integer vector.                                *)

Datasets ==
    { [X |-> << <<2, 0>>, <<0, 2>>, <<2, 2>>, <<-2, 0>> >>,  y |-> <<1, 0, 0, 1>>],
      [X |-> << <<2, 2>>, <<0, -2>> >>,                      y |-> <<1, 1>>] }

NSamples(d) == Len(d.X)
NFeatures(d) == Len(d.X[1])

\* np.dot(X.T, y - 0.5): the residual of the all-zero start is y - 0.5
InitialXTR(d) ==
    [j \in 1..NFeatures(d) |->
        SumSeq([i \in 1..NSamples(d) |-> d.X[i][j] * (2 * d.y[i] - 1)]) \div 2]

\* lines 95-98: tol = eps * max(1, min(n_1, n_0)) / float(n_samples)
Tol(e, y) ==
    LET n_samples == Len(y)
        n_1 == Cardinality({i \in 1..n_samples : y[i] = 1})
        n_0 == n_samples - n_1
    IN  <<e * Max(1, Min(n_1, n_0)), n_samples>>

\* the warning test without the absolute value
NotConvergedSigned(gap, tl) == gap * tl[2] > tl[1]

\* line 166: abs(gaps[t]) > tol
NotConverged(gap, tl) == Abs(gap) * tl[2] > tl[1]

\* the elimination bound with a non-strict comparison
StrongMaskNonStrict(xtr, lam_t, lam_prev) ==
    [j \in 1..Len(xtr) |-> IF Abs(xtr[j]) <= 2 * lam_t - lam_prev THEN 1 ELSE 0]

\* line 143: (np.abs(XTR) < 2. * lambdas[t] - lambdas[t - 1]).astype(np.intc)
StrongMask(xtr, lam_t, lam_prev) ==
    [j \in 1..Len(xtr) |-> IF Abs(xtr[j]) < 2 * lam_t - lam_prev THEN 1 ELSE 0]

\* line 146: n_active_features[t] < n_features, read at the top of step t
\* (tt is the 0-based t)
GapRun(n_active, tt, n_features) == n_active[tt + 1] < n_features

\* the row assignment without the row index: betas[:] = beta_init
RecordEveryRow(rows, tt, beta) == [i \in DOMAIN rows |-> beta]

\* line 164: betas[t, :] = beta_init.copy()
RecordRow(rows, tt, beta) == [rows EXCEPT ![tt + 1] = beta]

\* lines 157-158: gaps[t] = ..., n_iters[t] = ..., n_active_features[t] = ...
RecordAt(vec, tt, v) == [vec EXCEPT ![tt + 1] = v]

-----------------------------------------------------------------------------
(* The kernel cd_logreg is an external collaborator: only its contract is   *)
(* known.  It refines beta, XTR and the mask in place and returns the gap,   *)
(* the dual scale, the iteration count and the number of active features.    *)
(* Its outcomes are drawn from a small set: a gap, and one of a few          *)
(* solutions (coefficients, gradient, features it screens out).              *)

GapValues == {-2, 0, 1}

KernelSolutions ==
    { [beta |-> <<1, 0>>,  XTR |-> <<-3, 1>>, screened |-> <<0, 0>>],
      [beta |-> <<1, -1>>, XTR |-> <<0, 2>>,  screened |-> <<0, 1>>] }

cd_logreg(beta, xtr, disabled, lambda_, tl, dscale, wstr_plus) ==
    { [gap        |-> g,
       dual_scale |-> lambda_,
       n_iter     |-> IF g * tl[2] > tl[1] THEN max_iter ELSE 1,
       n_active   |-> Cardinality({j \in 1..Len(disabled) :
                                      disabled[j] = 0 /\ sol.screened[j] = 0}),
       beta       |-> sol.beta,
       XTR        |-> sol.XTR,
       disabled   |-> [j \in 1..Len(disabled) |->
                          IF disabled[j] = 1 \/ sol.screened[j] = 1 THEN 1 ELSE 0]] :
        g \in GapValues, sol \in KernelSolutions }

\* one record of the call log: what the kernel was given and what it left
Call(tt, wstr_plus, lambda_, disabled, xtr, out) ==
    [t |-> tt, wstr_plus |-> wstr_plus, lambda_ |-> lambda_,
     disabled_in |-> disabled, XTR_in |-> xtr, out |-> out]

-----------------------------------------------------------------------------
(* logreg_path *)

LambdaValues == 1..MaxLambda
EpsValues == {1, 2}

LambdaArgs ==
    {ArgValue("scalar", <<v>>) : v \in LambdaValues}
    \cup {ArgValue("ndarray", s) : s \in SeqsOf(LambdaValues, 0, MaxLambdas)}
    \cup {ArgValue("list", s) : s \in SeqsOf(LambdaValues, 0, MaxLambdas)}

EpsIdle ==
    /\ epc = "idle" /\ x = <<>> /\ alpha = <<0, 1>> /\ R = <<0, 1>> /\ zx = <<>>
    /\ n_inf = 0 /\ k = 0 /\ S = 0 /\ S2 = 0 /\ a_k = <<0, 1>> /\ j0 = 0
    /\ ret = [kind |-> "none"]
LamIdle == lpc = "idle" /\ lam_in = <<>> /\ lam_out = <<>>
PathIdle ==
    /\ pc = "idle" /\ arg = <<>> /\ data = <<>> /\ eps = 0
    /\ gap_active_warm_start = FALSE /\ strong_active_warm_start = FALSE
    /\ lambdas = <<>> /\ n_lambdas = 0 /\ tol = <<0, 1>>
    /\ run_active_warm_start = TRUE
    /\ betas = <<>> /\ gaps = <<>> /\ n_iters = <<>> /\ n_active_features = <<>>
    /\ disabled_features = <<>> /\ beta_init = <<>> /\ XTR = <<>>
    /\ dual_scale = <<>> /\ t = 0 /\ calls = <<>> /\ warnings = {}

\* the call logreg_path(X, y, lambdas, eps, ...), beta_init left to None
Init ==
    /\ pc = "enter"
    /\ arg \in LambdaArgs
    /\ data \in Datasets
    /\ eps \in EpsValues
    /\ gap_active_warm_start \in BOOLEAN
    /\ strong_active_warm_start \in BOOLEAN
    /\ lambdas = <<>> /\ n_lambdas = 0 /\ tol = <<0, 1>>
    /\ run_active_warm_start = TRUE
    /\ betas = <<>> /\ gaps = <<>> /\ n_iters = <<>> /\ n_active_features = <<>>
    /\ disabled_features = <<>> /\ beta_init = <<>> /\ XTR = <<>>
    /\ dual_scale = <<>> /\ t = 0 /\ calls = <<>> /\ warnings = {}
    /\ EpsIdle /\ LamIdle

inputs == <<arg, data, eps, gap_active_warm_start, strong_active_warm_start>>

\* lines 90-136, up to the IndexError of line 128 (lambdas[0] of an empty grid)
Enter ==
    /\ pc = "enter"
    /\ LET lam == NormalizeLambdas(arg)
           n == NpLen(lam)
           p == NFeatures(data)
       IN  /\ lambdas' = lam
           /\ n_lambdas' = n
           /\ tol' = Tol(eps, data.y)
           /\ run_active_warm_start' = TRUE
           /\ betas' = [i \in 1..n |-> Zeros(p)]
           /\ disabled_features' = Zeros(p)
           /\ gaps' = [i \in 1..n |-> 1]
           /\ n_iters' = Zeros(n)
           /\ n_active_features' = Zeros(n)
           /\ beta_init' = Zeros(p)
           /\ XTR' = InitialXTR(data)
           /\ IF n = 0
              THEN pc' = "IndexError" /\ dual_scale' = dual_scale
              ELSE pc' = "loop" /\ dual_scale' = NpItem(lam, 0)
    /\ UNCHANGED <<inputs, t, calls, warnings, epsVars, lamVars>>

\* lines 138-146: the top of one turn of the loop
WarmStart ==
    /\ pc = "loop" /\ t < n_lambdas
    /\ LET active_warm_start == strong_active_warm_start \/ gap_active_warm_start
           on == active_warm_start /\ t # 0
           run == IF on /\ gap_active_warm_start
                  THEN GapRun(n_active_features, t, NFeatures(data))
                  ELSE run_active_warm_start
       IN  /\ disabled_features' =
                 IF on /\ strong_active_warm_start
                 THEN StrongMask(XTR, NpItem(lambdas, t).flat[1],
                                 NpItem(lambdas, t - 1).flat[1])
                 ELSE disabled_features
           /\ run_active_warm_start' = run
           /\ pc' = IF on /\ run THEN "restricted" ELSE "solve"
    /\ UNCHANGED <<inputs, lambdas, n_lambdas, tol, betas, gaps, n_iters,
                   n_active_features, beta_init, XTR, dual_scale, t, calls,
                   warnings, epsVars, lamVars>>

\* lines 148-155: the solve restricted to the strong active set (wstr_plus=1);
\* its gap, dual scale and counts are dropped
RestrictedSolve ==
    /\ pc = "restricted"
    /\ \E out \in cd_logreg(beta_init, XTR, disabled_features, NpItem(lambdas, t),
                            tol, dual_scale, 1) :
        /\ beta_init' = out.beta
        /\ XTR' = out.XTR
        /\ disabled_features' = out.disabled
        /\ calls' = Append(calls,
                           Call(t, 1, NpItem(lambdas, t), disabled_features, XTR,
                                [beta |-> out.beta, XTR |-> out.XTR]))
    /\ pc' = "solve"
    /\ UNCHANGED <<inputs, lambdas, n_lambdas, tol, run_active_warm_start, betas,
                   gaps, n_iters, n_active_features, dual_scale, t, warnings,
                   epsVars, lamVars>>

\* lines 157-169: the definitive solve (wstr_plus=0), the row and the warning
DefinitiveSolve ==
    /\ pc = "solve"
    /\ \E out \in cd_logreg(beta_init, XTR, disabled_features, NpItem(lambdas, t),
                            tol, dual_scale, 0) :
        /\ beta_init' = out.beta
        /\ XTR' = out.XTR
        /\ disabled_features' = out.disabled
        /\ dual_scale' = out.dual_scale
        /\ gaps' = RecordAt(gaps, t, out.gap)
        /\ n_iters' = RecordAt(n_iters, t, out.n_iter)
        /\ n_active_features' = RecordAt(n_active_features, t, out.n_active)
        /\ betas' = RecordRow(betas, t, out.beta)
        /\ warnings' = IF NotConverged(out.gap, tol)
                       THEN warnings \cup {t} ELSE warnings
        /\ calls' = Append(calls,
                           Call(t, 0, NpItem(lambdas, t), disabled_features, XTR, out))
    /\ t' = t + 1
    /\ pc' = "loop"
    /\ UNCHANGED <<inputs, lambdas, n_lambdas, tol, run_active_warm_start,
                   epsVars, lamVars>>

\* line 171
Return ==
    /\ pc = "loop" /\ t = n_lambdas
    /\ pc' = "done"
    /\ UNCHANGED <<inputs, lambdas, n_lambdas, tol, run_active_warm_start, betas,
                   gaps, n_iters, n_active_features, disabled_features, beta_init,
                   XTR, dual_scale, t, calls, warnings, epsVars, lamVars>>

Next == Enter \/ WarmStart \/ RestrictedSolve \/ DefinitiveSolve \/ Return

Spec == Init /\ [][Next]_vars

-----------------------------------------------------------------------------
(* Properties of logreg_path *)

DefinitiveCalls == SelectSeq(calls, LAMBDA c : c.wstr_plus = 0)
Entered == pc \notin {"idle", "enter", "IndexError"}
FirstCallOfStep(i) == i = 1 \/ calls[i - 1].t # calls[i].t

C2_RestrictedOnlyBelowFull ==
    gap_active_warm_start =>
        \A i \in 1..Len(calls) :
            calls[i].wstr_plus = 1 =>
                /\ calls[i].t >= 1
                /\ n_active_features[calls[i].t] < NFeatures(data)

\* C3: with strong_active_warm_start, the mask handed to the first kernel call
\* of step t >= 1 is, feature by feature, |XTR[j]| < 2*lambdas[t] - lambdas[t-1]
\* with XTR as the definitive solve of step t - 1 left it; at t = 0 the mask is
\* all zeros.
C3_StrongMaskRecomputed ==
    strong_active_warm_start =>
        \A i \in 1..Len(calls) :
            FirstCallOfStep(i) =>
                LET c == calls[i]
                IN  IF c.t = 0
                    THEN c.disabled_in = Zeros(NFeatures(data))
                    ELSE /\ calls[i - 1].wstr_plus = 0
                         /\ calls[i - 1].t = c.t - 1
                         /\ c.XTR_in = calls[i - 1].out.XTR
                         /\ \A j \in 1..NFeatures(data) :
                              /\ c.disabled_in[j] \in {0, 1}
                              /\ c.disabled_in[j] = 1 <=>
                                   Abs(c.XTR_in[j]) <
                                     2 * arg.vals[c.t + 1] - arg.vals[c.t]

\* C3 witness: at step 1 the recomputed mask re-enables a feature the kernel
\* had screened out at step 0 and disables the other one
C3_Witness ==
    /\ strong_active_warm_start
    /\ \E i \in 2..Len(calls) :
        /\ calls[i].t = 1 /\ FirstCallOfStep(i)
        /\ calls[i - 1].out.disabled = <<0, 1>>
        /\ calls[i].disabled_in = <<1, 0>>

ArgEmpty == arg.kind # "scalar" /\ arg.vals = <<>>

\* C6: an empty penalty grid completes without error, makes no kernel call and
\* returns a matrix of zero rows and empty gaps, n_iters, n_active_features.
C6_EmptyGridEmptyResult ==
    ArgEmpty =>
        /\ pc # "IndexError"
        /\ calls = <<>>
        /\ pc = "done" => /\ betas = <<>> /\ gaps = <<>>
                          /\ n_iters = <<>> /\ n_active_features = <<>>

\* C7: a warning is printed for step t iff |gaps[t]| > tol with
\* tol = eps * max(1, min(n_pos, n_neg)) / n_samples; the step is solved once,
\* its coefficients and gap are recorded whatever the gap, and the loop runs
\* on to the end of the grid.
C7_WarningOnly ==
    Entered =>
        LET n_samples == Len(data.y)
            n_pos == Cardinality({i \in 1..n_samples : data.y[i] = 1})
            n_neg == n_samples - n_pos
            m == IF n_pos < n_neg THEN n_pos ELSE n_neg
            scale == IF m < 1 THEN 1 ELSE m
        IN  /\ \A i \in 1..t :
                /\ (i - 1 \in warnings) <=> (Abs(gaps[i]) * n_samples > eps * scale)
                /\ Cardinality({c \in 1..Len(calls) :
                        calls[c].wstr_plus = 0 /\ calls[c].t = i - 1}) = 1
                /\ \E c \in 1..Len(calls) :
                        /\ calls[c].wstr_plus = 0 /\ calls[c].t = i - 1
                        /\ gaps[i] = calls[c].out.gap
                        /\ betas[i] = calls[c].out.beta
            /\ \A w \in warnings : w < t
            /\ pc # "done" => ENABLED Next
            /\ pc = "done" => t = n_lambdas

\* C7 witness: a finished two-penalty path whose first step did not converge
\* (negative gap beyond tol), was recorded, and whose second step converged
C7_Witness ==
    /\ pc = "done" /\ n_lambdas = 2
    /\ warnings = {0}
    /\ gaps[1] < 0 /\ gaps[2] > 0
    /\ betas[1] # Zeros(NFeatures(data))

\* C9: the penalty argument, scalar or sequence (array or plain list) of
\* k >= 1 penalties, is processed as one step per penalty, lambdas[t] holding
\* the t-th penalty alone.
C9_ScalarOrSequence ==
    (pc \notin {"idle", "enter"} /\ Len(arg.vals) >= 1) =>
        /\ n_lambdas = Len(arg.vals)
        /\ \A tt \in 0..(n_lambdas - 1) :
              NpItem(lambdas, tt).flat = <<arg.vals[tt + 1]>>

-----------------------------------------------------------------------------
(* Exact numbers.  A rational is <<num, den>> with den > 0.  A float the     *)
(* code computes is kept exactly: [kind |-> "fin"] is (a + b*sqrt(d)) / den  *)
(* with den > 0, "inf" and "nan" are what numpy's division by zero and       *)
(* square root of a negative number give.                                    *)

RECURSIVE Gcd(_, _)
Gcd(m, n) == IF n = 0 THEN m ELSE Gcd(n, m % n)
Lcm(m, n) == (m * n) \div Gcd(m, n)
Sgn(v) == IF v > 0 THEN 1 ELSE IF v < 0 THEN -1 ELSE 0

\* floor of the square root
Isqrt(n) == CHOOSE r \in 0..n : r * r <= n /\ n < (r + 1) * (r + 1)

RatLe(p, q) == p[2] > 0 /\ q[2] > 0 /\ p[1] * q[2] <= q[1] * p[2]
RatLt(p, q) == p[2] > 0 /\ q[2] > 0 /\ p[1] * q[2] < q[1] * p[2]

NaN == [kind |-> "nan"]
Inf == [kind |-> "inf"]

\* (a + b*sqrt(d)) / den in lowest terms, den # 0, d >= 0
Fin(a, b, d, den) ==
    LET r  == Isqrt(d)
        sq == r * r = d
        a1 == IF sq THEN a + b * r ELSE a
        b1 == IF sq THEN 0 ELSE b
        d1 == IF b1 = 0 THEN 0 ELSE d
        g  == Gcd(Gcd(Abs(a1), Abs(b1)), Abs(den))
        sg == IF den < 0 THEN -1 ELSE 1
    IN  [kind |-> "fin", a |-> sg * (a1 \div g), b |-> sg * (b1 \div g),
         d |-> d1, den |-> Abs(den) \div g]

FinInt(v) == Fin(v, 0, 0, 1)
IsFin(u) == u.kind = "fin"

\* the sign of p + q*sqrt(d)
SignRoot(p, q, d) ==
    IF q = 0 \/ d = 0 THEN Sgn(p)
    ELSE IF p = 0 THEN Sgn(q)
    ELSE IF Sgn(p) = Sgn(q) THEN Sgn(p)
    ELSE Sgn(p) * Sgn(p * p - q * q * d)

\* the sign of p + q*sqrt(d1) + r*sqrt(d2)
SignRoots(p, q, d1, r, d2) ==
    IF r = 0 \/ d2 = 0 THEN SignRoot(p, q, d1)
    ELSE IF q = 0 \/ d1 = 0 THEN SignRoot(p, r, d2)
    ELSE IF d1 = d2 THEN SignRoot(p, q + r, d1)
    ELSE LET s1 == SignRoot(p, q, d1)
             s2 == Sgn(r)
         IN  IF s1 = 0 THEN s2
             ELSE IF s1 = s2 THEN s1
             ELSE s1 * SignRoot(p * p + q * q * d1 - r * r * d2, 2 * p * q, d1)

NumSign(u) == SignRoot(u.a, u.b, u.d)
\* the sign of u - v, both finite
NumCmp(u, v) ==
    SignRoots(u.a * v.den - v.a * u.den, u.b * v.den, u.d, -(v.b * u.den), v.d)
NumEq(u, v) == IsFin(u) /\ IsFin(v) /\ NumCmp(u, v) = 0
NumLt(u, v) == IsFin(u) /\ IsFin(v) /\ NumCmp(u, v) < 0

\* u * n / m, m # 0
NumScale(u, n, m) == Fin(u.a * n, u.b * n, u.d, u.den * m)
\* c - u for an integer c
IntMinus(c, u) == Fin(c * u.den - u.a, -u.b, u.d, u.den)
NumSquare(u) ==
    Fin(u.a * u.a + u.b * u.b * u.d, 2 * u.a * u.b, u.d, u.den * u.den)
\* u + v for two numbers of one field (same d, or one of them rational)
NumAdd(u, v) ==
    Fin(u.a * v.den + v.a * u.den, u.b * v.den + v.b * u.den,
        IF u.b = 0 THEN v.d ELSE u.d, u.den * v.den)

RECURSIVE NumSum(_)
NumSum(s) == IF s = <<>> THEN FinInt(0) ELSE NumAdd(Head(s), NumSum(Tail(s)))

-----------------------------------------------------------------------------
(* sgl_tools.py *)

AbsVec(xv) == [i \in 1..Len(xv) |-> Abs(xv[i])]
SumSq(s) == SumSeq([i \in 1..Len(s) |-> s[i] * s[i]])

\* np.linalg.norm(x, ord=np.inf)
NormInf(xv) == CHOOSE m \in {Abs(xv[i]) : i \in 1..Len(xv)} :
                   \A i \in 1..Len(xv) : Abs(xv[i]) <= m

\* lines 14-19: np.sign(x) * np.maximum(np.abs(x) - u, 0.), u a finite number
vect_ST(u, xv) ==
    [i \in 1..Len(xv) |->
        LET m == IntMinus(Abs(xv[i]), u)
        IN  IF NumSign(m) > 0 THEN NumScale(m, Sgn(xv[i]), 1) ELSE FinInt(0)]

\* np.linalg.norm(v, ord=2) ** 2 of a vector of numbers
Norm2Sq(v) == NumSum([i \in 1..Len(v) |-> NumSquare(v[i])])

\* alpha and R over their common denominator: <<alpha num, R num, den>>
Common(al, rr) ==
    LET dd == Lcm(al[2], rr[2])
    IN  <<al[1] * (dd \div al[2]), rr[1] * (dd \div rr[2]), dd>>

\* line 70: np.linalg.norm(x, ord=2) / R
EnL2(xv, rr) == Fin(0, rr[2], SumSq(xv), rr[1])

\* line 73: np.linalg.norm(x, ord=np.inf) / alpha, a numpy float division
EnLinf(xv, al) ==
    IF al[1] = 0
    THEN IF NormInf(xv) = 0 THEN NaN ELSE Inf
    ELSE Fin(NormInf(xv) * al[2], 0, 0, al[1])

RECURSIVE SortDescending(_)
SortDescending(s) ==
    IF s = <<>> THEN <<>>
    ELSE LET i == CHOOSE i \in 1..Len(s) : \A j \in 1..Len(s) : s[j] <= s[i]
         IN  <<s[i]>> \o SortDescending(SubSeq(s, 1, i - 1) \o SubSeq(s, i + 1, Len(s)))

\* line 77: zx > alpha * norm_inf / (alpha + R), with alpha + R > 0
OverThreshold(v, xv, al, rr) ==
    LET c == Common(al, rr)
    IN  v * (c[1] + c[2]) > c[1] * NormInf(xv)

\* lines 75-79: zx = np.sort(zx[I_inf])[::-1]
Restricted(xv, al, rr) ==
    SortDescending(SelectSeq(AbsVec(xv), LAMBDA v : OverThreshold(v, xv, al, rr)))

\* line 89: R2 / alpha2
R2onalpha2(al, rr) ==
    LET c == Common(al, rr) IN <<c[2] * c[2], c[1] * c[1]>>

\* The locals of the scan: kk is the loop index, ak a rational, brk whether the
\* loop left by break.
ScanState(kk, ss, ss2, ak, jj, brk) ==
    [k |-> kk, S |-> ss, S2 |-> ss2, a_k |-> ak, j0 |-> jj, brk |-> brk]

\* lines 94-101: one turn of the loop, at index st.k
ScanTurn(st, z, ratio) ==
    LET ss  == st.S + z[st.k + 1]
        ss2 == st.S2 + z[st.k + 1] * z[st.k + 1]
        nz  == z[st.k + 2]
        b_k == <<ss2 - 2 * ss * nz + (st.k + 1) * nz * nz, nz * nz>>
    IN  IF RatLe(st.a_k, ratio) /\ RatLt(ratio, b_k)
        THEN ScanState(st.k, ss, ss2, st.a_k, st.k + 1, TRUE)
        ELSE ScanState(st.k + 1, ss, ss2, b_k, st.j0, FALSE)

\* the else of the for loop without the last entry added to S and S2
ScanElseWithoutLast(st, z) ==
    ScanState(st.k, st.S, st.S2, st.a_k, Len(z), FALSE)

\* lines 102-105: the else of the for loop
ScanElse(st, z) ==
    ScanState(st.k, st.S + z[Len(z)], st.S2 + z[Len(z)] * z[Len(z)],
              st.a_k, Len(z), FALSE)

\* lines 90-105
RECURSIVE ScanLoop(_, _, _)
ScanLoop(st, z, ratio) ==
    IF st.brk THEN st
    ELSE IF st.k >= Len(z) - 1 THEN ScanElse(st, z)
    ELSE ScanLoop(ScanTurn(st, z, ratio), z, ratio)

\* lines 107-115
Quadratic(jj, ss, ss2, al, rr) ==
    LET c  == Common(al, rr)
        an == c[1]
        rn == c[2]
        dd == c[3]
        j0alpha2_R2 == jj * an * an - rn * rn      \* times dd^2
        delta == an * an * ss * ss - ss2 * j0alpha2_R2   \* times dd^2
    IN  IF j0alpha2_R2 = 0
        THEN IF an * ss = 0
             THEN (IF ss2 = 0 THEN NaN ELSE Inf)
             ELSE Fin(ss2 * dd, 0, 0, 2 * an * ss)
        ELSE IF delta < 0 THEN NaN
        ELSE Fin(dd * an * ss, -dd, delta, j0alpha2_R2)

\* lines 61-115
epsilon_norm(xv, al, rr) ==
    IF al[1] = 0 /\ rr[1] # 0 THEN EnL2(xv, rr)
    ELSE IF rr[1] = 0 THEN EnLinf(xv, al)
    ELSE LET z == Restricted(xv, al, rr)
         IN  IF NormInf(xv) = 0 THEN FinInt(0)
             ELSE IF Len(z) = 1 THEN FinInt(z[1])
             ELSE LET st == ScanLoop(ScanState(0, 0, 0, <<0, 1>>, 0, FALSE), z,
                                     R2onalpha2(al, rr))
                  IN  Quadratic(st.j0, st.S, st.S2, al, rr)

-----------------------------------------------------------------------------
(* One call of epsilon_norm *)

\* longest vector and largest magnitude drawn
MaxLen == 3
MaxAbs == 2

EpsVectors == SeqsOf(-MaxAbs..MaxAbs, 1, MaxLen) \cup {<<4, 3, 2, 1>>}
AlphaValues == {<<0, 1>>, <<1, 2>>, <<3, 4>>, <<1, 1>>}
RValues == {<<0, 1>>, <<1, 2>>, <<1, 1>>}

InitEps ==
    /\ epc = "enter"
    /\ x \in EpsVectors /\ alpha \in AlphaValues /\ R \in RValues
    /\ zx = <<>> /\ n_inf = 0 /\ k = 0 /\ S = 0 /\ S2 = 0 /\ a_k = <<0, 1>>
    /\ j0 = 0 /\ ret = [kind |-> "none"]
    /\ PathIdle /\ LamIdle

\* lines 69-70
EnReturnL2 ==
    /\ epc = "enter" /\ alpha[1] = 0 /\ R[1] # 0
    /\ ret' = EnL2(x, R)
    /\ epc' = "done"
    /\ UNCHANGED <<x, alpha, R, zx, n_inf, k, S, S2, a_k, j0, pathVars, lamVars>>

\* lines 72-73
EnReturnLinf ==
    /\ epc = "enter" /\ ~(alpha[1] = 0 /\ R[1] # 0) /\ R[1] = 0
    /\ ret' = EnLinf(x, alpha)
    /\ epc' = "done"
    /\ UNCHANGED <<x, alpha, R, zx, n_inf, k, S, S2, a_k, j0, pathVars, lamVars>>

\* lines 75-90
EnRestrict ==
    /\ epc = "enter" /\ ~(alpha[1] = 0 /\ R[1] # 0) /\ R[1] # 0
    /\ LET z == Restricted(x, alpha, R)
       IN  /\ zx' = z
           /\ n_inf' = Len(z)
           /\ IF NormInf(x) = 0
              THEN ret' = FinInt(0) /\ epc' = "done"
              ELSE IF Len(z) = 1
                   THEN ret' = FinInt(z[1]) /\ epc' = "done"
                   ELSE ret' = ret /\ epc' = "scan"
    /\ a_k' = <<0, 1>> /\ S' = 0 /\ S2' = 0 /\ k' = 0
    /\ UNCHANGED <<x, alpha, R, j0, pathVars, lamVars>>

ScanLocals == ScanState(k, S, S2, a_k, j0, FALSE)

\* lines 92-101
EnScanTurn ==
    /\ epc = "scan" /\ k < n_inf - 1
    /\ LET st == ScanTurn(ScanLocals, zx, R2onalpha2(alpha, R))
       IN  /\ k' = st.k /\ S' = st.S /\ S2' = st.S2 /\ a_k' = st.a_k /\ j0' = st.j0
           /\ epc' = IF st.brk THEN "solve" ELSE "scan"
    /\ UNCHANGED <<x, alpha, R, zx, n_inf, ret, pathVars, lamVars>>

\* lines 102-105
EnScanElse ==
    /\ epc = "scan" /\ k >= n_inf - 1
    /\ LET st == ScanElse(ScanLocals, zx)
       IN  /\ k' = st.k /\ S' = st.S /\ S2' = st.S2 /\ a_k' = st.a_k /\ j0' = st.j0
    /\ epc' = "solve"
    /\ UNCHANGED <<x, alpha, R, zx, n_inf, ret, pathVars, lamVars>>

\* lines 107-115
EnSolve ==
    /\ epc = "solve"
    /\ ret' = Quadratic(j0, S, S2, alpha, R)
    /\ epc' = "done"
    /\ UNCHANGED <<x, alpha, R, zx, n_inf, k, S, S2, a_k, j0, pathVars, lamVars>>

NextEps ==
    EnReturnL2 \/ EnReturnLinf \/ EnRestrict \/ EnScanTurn \/ EnScanElse \/ EnSolve

SpecEps == InitEps /\ [][NextEps]_vars

\* the steps of SpecEps compute what the one-piece epsilon_norm computes
EpsStepsAgree == epc = "done" => ret = epsilon_norm(x, alpha, R)

-----------------------------------------------------------------------------
(* Properties of epsilon_norm *)

RatPos(q) == q[1] > 0
NonZero(xv) == NormInf(xv) > 0
\* alpha * R squared
AlphaR2 == Fin((alpha[1] * R[1]) * (alpha[1] * R[1]), 0, 0,
               (alpha[2] * R[2]) * (alpha[2] * R[2]))
\* || vect_ST(alpha * z, x) ||_2 squared
ThresholdedNorm2Sq(z) == Norm2Sq(vect_ST(NumScale(z, alpha[1], alpha[2]), x))

\* C4: for x # 0, alpha in (0,1), R in (0, ||x||_2) the returned z satisfies
\* || soft_threshold(x, alpha*z) ||_2 = alpha * R (compared squared, both
\* sides being non-negative).
C4_RoundTrip ==
    ( /\ epc = "done" /\ NonZero(x)
      /\ RatPos(alpha) /\ alpha[1] < alpha[2]
      /\ RatPos(R) /\ R[1] * R[1] < SumSq(x) * R[2] * R[2] ) =>
        /\ IsFin(ret)
        /\ NumEq(ThresholdedNorm2Sq(ret), AlphaR2)

\* what the code does solve: || soft_threshold(x, alpha*z) ||_2 = R * z,
\* whenever the scan ran (two or more entries over the threshold)
EpsScaledEquation ==
    (epc = "done" /\ RatPos(alpha) /\ RatPos(R) /\ NonZero(x) /\ n_inf >= 2) =>
        /\ IsFin(ret)
        /\ NumEq(ThresholdedNorm2Sq(ret),
                 NumScale(NumSquare(ret), R[1] * R[1], R[2] * R[2]))

\* C8: a degenerate input is resolved by a closed form and never by an
\* undefined value: alpha = 0, R # 0 gives ||x||_2 / R; R = 0, alpha > 0 gives
\* ||x||_inf / alpha; x = 0 gives 0, alpha = 0 and R = 0 included.
C8_DegenerateClosedForm ==
    (epc = "done" /\ (alpha[1] = 0 \/ R[1] = 0 \/ ~NonZero(x))) =>
        /\ IsFin(ret)
        /\ (alpha[1] = 0 /\ R[1] # 0) =>
              /\ NumSign(ret) >= 0
              /\ NumEq(NumScale(NumSquare(ret), R[1] * R[1], R[2] * R[2]),
                       FinInt(SumSq(x)))
        /\ (R[1] = 0 /\ alpha[1] > 0) =>
              NumEq(NumScale(ret, alpha[1], alpha[2]), FinInt(NormInf(x)))
        /\ ~NonZero(x) => NumEq(ret, FinInt(0))

RECURSIVE SumOver(_, _)
SumOver(I, f) ==
    IF I = {} THEN 0
    ELSE LET i == CHOOSE i \in I : TRUE IN f[i] + SumOver(I \ {i}, f)

\* S and S2 are the sum and the sum of squares of the j largest |x[i]|
TopSums(j) ==
    \E I \in SUBSET (1..Len(x)) :
        /\ Cardinality(I) = j
        /\ \A i \in I : \A m \in (1..Len(x)) \ I : Abs(x[m]) <= Abs(x[i])
        /\ S = SumOver(I, AbsVec(x))
        /\ S2 = SumOver(I, [i \in 1..Len(x) |-> x[i] * x[i]])

GeneralBranch == RatPos(alpha) /\ alpha[1] <= alpha[2] /\ RatPos(R) /\ NonZero(x)

\* C10: in the general branch (alpha in (0,1], R > 0, x # 0) the restricted
\* magnitudes are a non-empty sequence of strictly positive numbers, each
\* exceeding alpha*||x||_inf/(alpha+R); the scan never divides by zero and
\* takes at most n_inf - 1 turns; when the quadratic is solved j0 is set with
\* 1 <= j0 <= n_inf and S, S2 are the sums over the j0 largest magnitudes.
C10_ScanWellDefined ==
    (GeneralBranch /\ epc # "enter") =>
        /\ n_inf = Len(zx) /\ n_inf >= 1
        /\ \A i \in 1..n_inf :
              /\ zx[i] > 0
              /\ zx[i] * (alpha[1] * R[2] + R[1] * alpha[2])
                    > alpha[1] * R[2] * NormInf(x)
        /\ epc = "scan" =>
              /\ k <= n_inf - 1
              /\ k < n_inf - 1 => zx[k + 2] # 0
        /\ (epc = "solve" \/ (epc = "done" /\ n_inf >= 2)) =>
              /\ k <= n_inf - 1
              /\ 1 <= j0 /\ j0 <= n_inf
              /\ TopSums(j0)

\* C10 witness: the scan left by break after two turns, before the end of
\* the restricted magnitudes
C10_Witness ==
    GeneralBranch /\ epc = "solve" /\ j0 = 2 /\ j0 < n_inf

-----------------------------------------------------------------------------
(* build_lambdas *)

RatNorm(n, d) ==
    LET g == Gcd(Abs(n), Abs(d)) IN
    IF d < 0 THEN <<(-n) \div g, (-d) \div g>> ELSE <<n \div g, d \div g>>
RatAdd(p, q) == RatNorm(p[1] * q[2] + q[1] * p[2], p[2] * q[2])
RatSub(p, q) == RatNorm(p[1] * q[2] - q[1] * p[2], p[2] * q[2])
RatMul(p, q) == RatNorm(p[1] * q[1], p[2] * q[2])
\* q # 0
RatDiv(p, q) == RatNorm(p[1] * q[2], p[2] * q[1])
One == <<1, 1>>

\* np.dot(X[:, g_start[i]:g_start[i] + size_groups[i]].T, y), i 0-based
GroupCorrelation(X, y, g_start, size_groups, i) ==
    [c \in 1..size_groups[i + 1] |->
        SumSeq([r \in 1..Len(X) |-> X[r][g_start[i + 1] + c] * y[r]])]

\* tau + (1. - tau) * omega
Weight(omega_g, tau) == RatAdd(tau, RatMul(RatSub(One, tau), omega_g))

\* line 141: eps_g = (1. - tau) * omega / (tau + (1. - tau) * omega)
EpsG(omega_g, tau) == RatDiv(RatMul(RatSub(One, tau), omega_g), Weight(omega_g, tau))

\* lines 144-148: epsilon_norm(X_g^T y, 1 - eps_g, eps_g) / (tau + (1 - tau) omega_g)
GroupNorm(a, i) ==
    LET e == EpsG(a.omega[i + 1], a.tau)
        w == Weight(a.omega[i + 1], a.tau)
        z == epsilon_norm(GroupCorrelation(a.X, a.y, a.g_start, a.size_groups, i),
                          RatSub(One, e), e)
    IN  IF IsFin(z) THEN NumScale(z, w[2], w[1]) ELSE z

\* np.argmax of a vector of finite numbers: the first index (0-based) of the
\* largest entry
ArgMax(v) ==
    (CHOOSE i \in 1..Len(v) :
        /\ \A j \in 1..Len(v) : ~NumLt(v[i], v[j])
        /\ \A j \in 1..(i - 1) : NumLt(v[j], v[i])) - 1

\* one entry of the grid: base * 10 ** e with e a rational, or nan
Pow10(base, e) == [kind |-> "fin", base |-> base, exp10 |-> e]

\* np.arange(n) / (n - 1.) at index i: numpy's 0 / 0. is nan
\* lines 152-153: lambda_max * 10 ** (-delta * np.arange(n_lambdas) / (n_lambdas - 1.))
Grid(lambda_max, n, delta) ==
    [i \in 1..n |->
        IF n - 1 = 0 \/ ~IsFin(lambda_max)
        THEN NaN
        ELSE Pow10(lambda_max, RatNorm(-delta * (i - 1), n - 1))]

\* lines 135-155
build_lambdas(a) ==
    LET n_groups == Len(a.size_groups)
        nrm == [g \in 1..n_groups |-> GroupNorm(a, g - 1)]
        imax == ArgMax(nrm)
        lambda_max == nrm[imax + 1]
    IN  [lambdas |-> Grid(lambda_max, a.n_lambdas, a.delta), imax |-> imax]

\* largest grid and decay drawn
MaxGrid == 3
MaxDelta == 2

GroupedData ==
    { [X |-> << <<1, 0, 2>>, <<0, 1, 1>> >>,   y |-> <<1, 2>>],
      [X |-> << <<1, -1, 0>>, <<2, 1, 1>> >>,  y |-> <<1, -1>>],
      [X |-> << <<1, 1, 1>> >>,                y |-> <<2>>] }
Layouts ==
    { [size_groups |-> <<1, 2>>, g_start |-> <<0, 1>>],
      [size_groups |-> <<2, 1>>, g_start |-> <<0, 2>>],
      [size_groups |-> <<3>>,    g_start |-> <<0>>] }
OmegaValues == {<<1, 1>>, <<2, 1>>}
TauValues == {<<0, 1>>, <<1, 2>>, <<1, 1>>}

LamArgs ==
    { [X |-> d.X, y |-> d.y, omega |-> om, size_groups |-> l.size_groups,
       g_start |-> l.g_start, n_lambdas |-> n, delta |-> dl, tau |-> ta] :
        d \in GroupedData, l \in Layouts, om \in SeqsOf(OmegaValues, 1, 2),
        n \in 1..MaxGrid, dl \in 1..MaxDelta, ta \in TauValues }

InitLam ==
    /\ lpc = "enter"
    /\ lam_in \in {a \in LamArgs : Len(a.omega) = Len(a.size_groups)}
    /\ lam_out = <<>>
    /\ PathIdle /\ EpsIdle

BuildLambdas ==
    /\ lpc = "enter"
    /\ lam_out' = build_lambdas(lam_in)
    /\ lpc' = "done"
    /\ UNCHANGED <<lam_in, pathVars, epsVars>>

NextLam == BuildLambdas

SpecLam == InitLam /\ [][NextLam]_vars

-----------------------------------------------------------------------------
(* Properties of build_lambdas *)

\* base * 10 ** e > base' * 10 ** e' for entries sharing a positive base
GridGreater(u, v) ==
    /\ u.kind = "fin" /\ v.kind = "fin"
    /\ NumEq(u.base, v.base) /\ NumSign(u.base) > 0
    /\ RatLt(v.exp10, u.exp10)

\* the largest group norm is positive
LambdaMaxPositive ==
    \E g \in 1..Len(lam_in.size_groups) :
        IsFin(GroupNorm(lam_in, g - 1)) /\ NumSign(GroupNorm(lam_in, g - 1)) > 0

\* C5: for n_lambdas >= 1 and delta > 0, on data whose maximal penalty is
\* positive, build_lambdas returns n_lambdas strictly decreasing penalties,
\* the first equal to lambda_max = max_g epsilon_norm(X_g^T y, 1 - eps_g, eps_g)
\* / (tau + (1 - tau) * omega_g), and the index of a group attaining it.
C5_DecreasingGrid ==
    (lpc = "done" /\ LambdaMaxPositive) =>
        LET lams == lam_out.lambdas
            best == GroupNorm(lam_in, lam_out.imax)
        IN  /\ Len(lams) = lam_in.n_lambdas
            /\ lam_out.imax \in 0..(Len(lam_in.size_groups) - 1)
            /\ \A g \in 1..Len(lam_in.size_groups) :
                  ~NumLt(best, GroupNorm(lam_in, g - 1))
            /\ lams[1].kind = "fin"
            /\ NumEq(lams[1].base, best) /\ lams[1].exp10 = <<0, 1>>
            /\ \A i \in 1..(Len(lams) - 1) : GridGreater(lams[i], lams[i + 1])

\* the same for grids of two or more penalties
LamGridFromTwo == lam_in.n_lambdas >= 2 => C5_DecreasingGrid

====
